---- MODULE Spec2Model ----
(***************************************************************************)
(* Model of custom_components/apsystemsapi/sensor.py: the sensor platform  *)
(* of the APsystems integration.  async_setup_platform creates three       *)
(* sensor entities per inverter; each entity's async_update is a coroutine *)
(* that suspends at every await.  One step of the model runs an entity     *)
(* from the completion of one await to the next await (or to the end of    *)
(* the coroutine), so updates of different entities interleave exactly at  *)
(* the awaits.  The vendor client (apsystems_api.Api) and the calendar are *)
(* the environment: every client call may complete with any outcome.       *)
(***************************************************************************)
EXTENDS Integers, Sequences, FiniteSets, TLC

VARIABLES
    inverters,  \* what api.list_inverters() returns (line 41)
    devices,    \* the entities handed to add_entities (lines 40-48)
    state,      \* state[i]: entity i's _state
    pc,         \* pc[i]: where entity i's async_update stands
    now,        \* now[i]: the local `now` of ApsystemsSensorToday.async_update
    clock,      \* the calendar day datetime.now() reads (a day index)
    prev,       \* history: state[i] when the running update was called
    calls,      \* history: the calls the running update has awaited, in order
    parallel,   \* how many updates the host runs at once (fixed during a run)
    client,     \* the login session of the ApApi object all entities share
    served      \* served[i]: the last energy value the client returned to entity i

vars == <<inverters, devices, state, pc, now, clock, prev, calls, parallel, client, served>>

\* the environment's own state: the entities' code never reads or writes it
env == <<parallel, client, served>>

----------------------------------------------------------------------------
(* Bounds of the model *)

\* client readings are drawn from 0..MaxValue
MaxValue == 1
\* the calendar runs over the day indices 0..MaxDay
MaxDay == 1
\* a device listing holds at most MaxDevices inverters
MaxDevices == 2
\* the host runs at most MaxInFlight updates at once
MaxInFlight == 1
\* the client's session expires at most MaxExpiries times
MaxExpiries == 1

----------------------------------------------------------------------------
(* Values *)

\* Python's None, the initial _state
None == -1

\* asyncio.sleep(3)
SleepSeconds == 3

Values == 0..MaxValue

\* the exceptions a client call can end with; "Error" is any other exception
TokenExpired == "TokenExpired"
DeviceOffline == "DeviceOffline"
OtherError == "Error"
FetchOutcomes == {"ok", TokenExpired, DeviceOffline, OtherError}
RefreshOutcomes == {"ok", OtherError}

\* inverter_dev_id values the client may list; some end like a suffix of a
\* unique id or contain the separator
DeviceIds == {"D1", "D2", "D1_now", "D1_", "D", "1_now", "D1_lifetime", "_today"}

Inverter(id) == [inverter_dev_id |-> id, device_name |-> id]

RECURSIVE SeqsUpTo(_, _)
SeqsUpTo(S, n) ==
    IF n = 0 THEN {<<>>}
    ELSE LET shorter == SeqsUpTo(S, n - 1)
         IN  shorter \cup {Append(s, x) : s \in shorter, x \in S}

Listings == SeqsUpTo({Inverter(id) : id \in DeviceIds}, MaxDevices)

----------------------------------------------------------------------------
(* The calendar: datetime.now() and strftime *)

\* the date of day index d: the calendar starts on 2023-12-31
DateOf(d) ==
    IF d = 0 THEN [year |-> 2023, month |-> 12, day |-> 31]
    ELSE [year |-> 2024, month |-> 1, day |-> d]

NoDate == [year |-> 0, month |-> 0, day |-> 0]

Digit == <<"0", "1", "2", "3", "4", "5", "6", "7", "8", "9">>

\* strftime('%m') and strftime('%d'): two decimal digits, zero padded
Strftime2(n) == Digit[(n \div 10) + 1] \o Digit[(n % 10) + 1]

----------------------------------------------------------------------------
(* Entities *)

NowEntity(inverter) ==
    [kind |-> "now", inverter |-> inverter,
     name |-> "APsystems " \o inverter.device_name \o " Power"]

LifetimeEntity(inverter) ==
    [kind |-> "lifetime", inverter |-> inverter,
     name |-> "APsystems " \o inverter.device_name \o " All-Time Production"]

TodayEntity(inverter) ==
    [kind |-> "today", inverter |-> inverter,
     name |-> "APsystems " \o inverter.device_name \o " Today Production"]

Entities == DOMAIN devices

\* the unique_id properties (lines 110-112, 150-152, 193-195)
NowUniqueId(e) == "apsystemsapi_" \o e.inverter.inverter_dev_id \o "_now"

\* (variant of LifetimeUniqueId for C9: the suffix of the power entity copied)
LifetimeUniqueIdCopied(e) == "apsystemsapi_" \o e.inverter.inverter_dev_id \o "_now"

LifetimeUniqueId(e) == "apsystemsapi_" \o e.inverter.inverter_dev_id \o "_lifetime"

TodayUniqueId(e) == "apsystemsapi_" \o e.inverter.inverter_dev_id \o "_today"

UniqueId(e) ==
    CASE e.kind = "now" -> NowUniqueId(e)
      [] e.kind = "lifetime" -> LifetimeUniqueId(e)
      [] e.kind = "today" -> TodayUniqueId(e)

\* the loop of async_setup_platform: three entities per listed inverter
RECURSIVE BuildDevices(_)
BuildDevices(invs) ==
    IF invs = <<>> THEN <<>>
    ELSE <<NowEntity(Head(invs)), LifetimeEntity(Head(invs)), TodayEntity(Head(invs))>>
         \o BuildDevices(Tail(invs))

----------------------------------------------------------------------------
(* Client calls as the coroutine sees them *)

\* a call the coroutine has made and is awaiting; for the call that is passed
\* a date, with the day it was made on
Call(op, args) ==
    [op |-> op, args |-> args, at |-> IF op = "get_graph" THEN clock ELSE None,
     out |-> "pending", val |-> None]

\* what a fetch can complete with: a reading, or an exception
FetchResults ==
    {[out |-> "ok", val |-> v] : v \in Values}
    \cup {[out |-> e, val |-> None] : e \in FetchOutcomes \ {"ok"}}

\* the awaited call (the last of cs) completes with r
Completed(cs, r) ==
    [cs EXCEPT ![Len(cs)] = [@ EXCEPT !.out = r.out, !.val = r.val]]

\* the three fetches
FetchOps == {"get_inverter_realtime", "get_lifetime_graph", "get_graph"}

\* the arguments of the three fetches
RealtimeArgs(e) == <<e.inverter.inverter_dev_id>>

LifetimeArgs(e) == <<e.inverter.inverter_dev_id>>

GraphArgs(e, date) ==
    <<e.inverter.inverter_dev_id, date.year, Strftime2(date.month), Strftime2(date.day)>>

\* (variant of Power for C2: the fetched power is lost)
PowerLost(r) == None

\* the fields of the client's answers that the entities store
Power(r) == r.val

TotalEnergy(r) == r.val

\* how async_update can end: it returned after storing a fetched reading,
\* returned after storing the offline reading, or raised
Ended == {"done", "offline", "raised"}

\* the updates the host has called and not yet seen end
InFlight == {i \in DOMAIN devices : pc[i] # "idle"}

\* the host may call async_update of entity i: it never runs an entity's
\* update in parallel with itself
MayUpdate(i) == pc[i] = "idle" /\ Cardinality(InFlight) < parallel

----------------------------------------------------------------------------
(* Initial states *)

TypeOK ==
    /\ inverters \in Listings
    /\ devices \in {<<>>, BuildDevices(inverters)}
    /\ clock \in 0..MaxDay
    /\ DOMAIN state = Entities /\ DOMAIN pc = Entities /\ DOMAIN now = Entities
    /\ DOMAIN prev = Entities /\ DOMAIN calls = Entities
    /\ \A i \in Entities :
        /\ state[i] \in Values \cup {None}
        /\ prev[i] \in Values \cup {None}
        /\ pc[i] \in {"idle", "fetch1", "sleep", "refresh", "fetch2"} \cup Ended
        /\ now[i] \in {NoDate} \cup {DateOf(d) : d \in 0..MaxDay}
    /\ parallel \in Nat
    /\ client.session \in {"valid", "expired"}
    /\ client.expiries \in 0..MaxExpiries
    /\ DOMAIN served \subseteq Entities

\* the session the client holds after ApApi.init (line 38), with counters of
\* what has happened to it since
FreshSession == [session |-> "valid", expiries |-> 0, refreshCalls |-> 0, stale |-> 0]

\* before async_setup_platform has run, for a given device listing
InitWith(listing) ==
    /\ inverters = listing
    /\ devices = <<>>
    /\ state = <<>>
    /\ pc = <<>>
    /\ now = <<>>
    /\ prev = <<>>
    /\ calls = <<>>
    /\ clock = 0
    /\ client = FreshSession
    /\ served = <<>>

\* one inverter: the three entities of one device are polled
Init == InitWith(<<Inverter("D1")>>) /\ parallel = MaxInFlight

\* any listing: discovery alone
InitDiscovery == \E listing \in Listings : InitWith(listing) /\ parallel = MaxInFlight

----------------------------------------------------------------------------
(* async_setup_platform, lines 31-48 *)

SetupPlatform ==
    /\ devices = <<>>
    /\ devices' = BuildDevices(inverters)
    /\ state' = [i \in DOMAIN devices' |-> None]
    /\ pc' = [i \in DOMAIN devices' |-> "idle"]
    /\ now' = [i \in DOMAIN devices' |-> NoDate]
    /\ prev' = [i \in DOMAIN devices' |-> None]
    /\ calls' = [i \in DOMAIN devices' |-> <<>>]
    /\ UNCHANGED <<inverters, clock>>

\* the calendar day changes
Midnight ==
    /\ clock < MaxDay
    /\ clock' = clock + 1
    /\ UNCHANGED <<inverters, devices, state, pc, now, prev, calls>>

----------------------------------------------------------------------------
(* ApsystemsSensorNow.async_update, lines 82-95 *)

\* (variant of OfflineReading for C3: the offline branch clears the reading)
OfflineReadingCleared == None

\* the reading stored when the device is offline (line 92)
OfflineReading == 0

\* line 85: the host calls async_update, which awaits the first fetch
NowAsyncUpdate(i) ==
    /\ devices[i].kind = "now"
    /\ MayUpdate(i)
    /\ pc' = [pc EXCEPT ![i] = "fetch1"]
    /\ prev' = [prev EXCEPT ![i] = state[i]]
    /\ calls' = [calls EXCEPT ![i] =
                    <<Call("get_inverter_realtime", RealtimeArgs(devices[i]))>>]
    /\ UNCHANGED <<inverters, devices, state, now, clock>>

\* (variant of NowFirstFetch for C12: the fetched power is stored in an
\* attribute that the sensors of the device share)
NowFirstFetchShared(i) ==
    /\ devices[i].kind = "now"
    /\ pc[i] = "fetch1"
    /\ \E r \in FetchResults :
        \/ /\ r.out = "ok"
           /\ state' = [j \in DOMAIN state |->
                            IF devices[j].inverter = devices[i].inverter
                            THEN Power(r) ELSE state[j]]
           /\ pc' = [pc EXCEPT ![i] = "done"]
           /\ calls' = [calls EXCEPT ![i] = Completed(@, r)]
        \/ /\ r.out = TokenExpired
           /\ pc' = [pc EXCEPT ![i] = "refresh"]
           /\ calls' = [calls EXCEPT ![i] =
                           Append(Completed(@, r), Call("refresh_login", <<>>))]
           /\ UNCHANGED state
        \/ /\ r.out = DeviceOffline
           /\ state' = [state EXCEPT ![i] = OfflineReading]
           /\ pc' = [pc EXCEPT ![i] = "offline"]
           /\ calls' = [calls EXCEPT ![i] = Completed(@, r)]
        \/ /\ r.out = OtherError
           /\ pc' = [pc EXCEPT ![i] = "raised"]
           /\ calls' = [calls EXCEPT ![i] = Completed(@, r)]
           /\ UNCHANGED state
    /\ UNCHANGED <<inverters, devices, now, clock, prev>>

\* lines 85-93: the first fetch returns or raises
NowFirstFetch(i) ==
    /\ devices[i].kind = "now"
    /\ pc[i] = "fetch1"
    /\ \E r \in FetchResults :
        \/ /\ r.out = "ok"
           /\ state' = [state EXCEPT ![i] = Power(r)]
           /\ pc' = [pc EXCEPT ![i] = "done"]
           /\ calls' = [calls EXCEPT ![i] = Completed(@, r)]
        \/ /\ r.out = TokenExpired
           /\ pc' = [pc EXCEPT ![i] = "refresh"]
           /\ calls' = [calls EXCEPT ![i] =
                           Append(Completed(@, r), Call("refresh_login", <<>>))]
           /\ UNCHANGED state
        \/ /\ r.out = DeviceOffline
           /\ state' = [state EXCEPT ![i] = OfflineReading]
           /\ pc' = [pc EXCEPT ![i] = "offline"]
           /\ calls' = [calls EXCEPT ![i] = Completed(@, r)]
        \/ /\ r.out = OtherError
           /\ pc' = [pc EXCEPT ![i] = "raised"]
           /\ calls' = [calls EXCEPT ![i] = Completed(@, r)]
           /\ UNCHANGED state
    /\ UNCHANGED <<inverters, devices, now, clock, prev>>

\* lines 89-90: refresh_login returns (then the sleep starts) or raises
NowRefresh(i) ==
    /\ devices[i].kind = "now"
    /\ pc[i] = "refresh"
    /\ \E out \in RefreshOutcomes :
        \/ /\ out = "ok"
           /\ pc' = [pc EXCEPT ![i] = "sleep"]
           /\ calls' = [calls EXCEPT ![i] =
                           Append(Completed(@, [out |-> out, val |-> None]),
                                  Call("sleep", <<SleepSeconds>>))]
        \/ /\ out # "ok"
           /\ pc' = [pc EXCEPT ![i] = "raised"]
           /\ calls' = [calls EXCEPT ![i] = Completed(@, [out |-> out, val |-> None])]
    /\ UNCHANGED <<inverters, devices, state, now, clock, prev>>

\* lines 90, 94: the sleep is over, the fetch is made again
NowSleep(i) ==
    /\ devices[i].kind = "now"
    /\ pc[i] = "sleep"
    /\ pc' = [pc EXCEPT ![i] = "fetch2"]
    /\ calls' = [calls EXCEPT ![i] =
                    Append(Completed(@, [out |-> "ok", val |-> None]),
                           Call("get_inverter_realtime", RealtimeArgs(devices[i])))]
    /\ UNCHANGED <<inverters, devices, state, now, clock, prev>>

\* (variant of NowSecondFetch for C4: the second fetch sits inside the try,
\* so DeviceOffline is caught again)
NowSecondFetchCaught(i) ==
    /\ devices[i].kind = "now"
    /\ pc[i] = "fetch2"
    /\ \E r \in FetchResults :
        \/ /\ r.out = "ok"
           /\ state' = [state EXCEPT ![i] = r.val]
           /\ pc' = [pc EXCEPT ![i] = "done"]
           /\ calls' = [calls EXCEPT ![i] = Completed(@, r)]
        \/ /\ r.out = DeviceOffline
           /\ state' = [state EXCEPT ![i] = 0]
           /\ pc' = [pc EXCEPT ![i] = "offline"]
           /\ calls' = [calls EXCEPT ![i] = Completed(@, r)]
        \/ /\ r.out \in {TokenExpired, OtherError}
           /\ pc' = [pc EXCEPT ![i] = "raised"]
           /\ calls' = [calls EXCEPT ![i] = Completed(@, r)]
           /\ UNCHANGED state
    /\ UNCHANGED <<inverters, devices, now, clock, prev>>

\* lines 94-95: the second fetch returns or raises; nothing catches here
NowSecondFetch(i) ==
    /\ devices[i].kind = "now"
    /\ pc[i] = "fetch2"
    /\ \E r \in FetchResults :
        \/ /\ r.out = "ok"
           /\ state' = [state EXCEPT ![i] = Power(r)]
           /\ pc' = [pc EXCEPT ![i] = "done"]
           /\ calls' = [calls EXCEPT ![i] = Completed(@, r)]
        \/ /\ r.out # "ok"
           /\ pc' = [pc EXCEPT ![i] = "raised"]
           /\ calls' = [calls EXCEPT ![i] = Completed(@, r)]
           /\ UNCHANGED state
    /\ UNCHANGED <<inverters, devices, now, clock, prev>>

----------------------------------------------------------------------------
(* ApsystemsSensorLifetime.async_update, lines 129-138 *)

\* line 132: the host calls async_update, which awaits the first fetch
LifetimeAsyncUpdate(i) ==
    /\ devices[i].kind = "lifetime"
    /\ MayUpdate(i)
    /\ pc' = [pc EXCEPT ![i] = "fetch1"]
    /\ prev' = [prev EXCEPT ![i] = state[i]]
    /\ calls' = [calls EXCEPT ![i] =
                    <<Call("get_lifetime_graph", LifetimeArgs(devices[i]))>>]
    /\ UNCHANGED <<inverters, devices, state, now, clock>>

\* (variant of LifetimeFirstFetch for C7: the handler of the power entity,
\* with its except DeviceOffline branch, copied to the lifetime entity)
LifetimeFirstFetchOfflineCaught(i) ==
    /\ devices[i].kind = "lifetime"
    /\ pc[i] = "fetch1"
    /\ \E r \in FetchResults :
        \/ /\ r.out = "ok"
           /\ state' = [state EXCEPT ![i] = r.val]
           /\ pc' = [pc EXCEPT ![i] = "fetch2"]
           /\ calls' = [calls EXCEPT ![i] =
                           Append(Completed(@, r),
                                  Call("get_lifetime_graph", LifetimeArgs(devices[i])))]
        \/ /\ r.out = TokenExpired
           /\ pc' = [pc EXCEPT ![i] = "sleep"]
           /\ calls' = [calls EXCEPT ![i] =
                           Append(Completed(@, r), Call("sleep", <<SleepSeconds>>))]
           /\ UNCHANGED state
        \/ /\ r.out = DeviceOffline
           /\ state' = [state EXCEPT ![i] = 0]
           /\ pc' = [pc EXCEPT ![i] = "offline"]
           /\ calls' = [calls EXCEPT ![i] = Completed(@, r)]
        \/ /\ r.out = OtherError
           /\ pc' = [pc EXCEPT ![i] = "raised"]
           /\ calls' = [calls EXCEPT ![i] = Completed(@, r)]
           /\ UNCHANGED state
    /\ UNCHANGED <<inverters, devices, now, clock, prev>>

\* lines 132-137: the first fetch returns (the reading is stored and the
\* statement after the try makes the fetch again) or raises
LifetimeFirstFetch(i) ==
    /\ devices[i].kind = "lifetime"
    /\ pc[i] = "fetch1"
    /\ \E r \in FetchResults :
        \/ /\ r.out = "ok"
           /\ state' = [state EXCEPT ![i] = TotalEnergy(r)]
           /\ pc' = [pc EXCEPT ![i] = "fetch2"]
           /\ calls' = [calls EXCEPT ![i] =
                           Append(Completed(@, r),
                                  Call("get_lifetime_graph", LifetimeArgs(devices[i])))]
        \/ /\ r.out = TokenExpired
           /\ pc' = [pc EXCEPT ![i] = "sleep"]
           /\ calls' = [calls EXCEPT ![i] =
                           Append(Completed(@, r), Call("sleep", <<SleepSeconds>>))]
           /\ UNCHANGED state
        \/ /\ r.out \in {DeviceOffline, OtherError}
           /\ pc' = [pc EXCEPT ![i] = "raised"]
           /\ calls' = [calls EXCEPT ![i] = Completed(@, r)]
           /\ UNCHANGED state
    /\ UNCHANGED <<inverters, devices, now, clock, prev>>

\* (variant of LifetimeSleep for C11: the refresh is skipped when another
\* entity has already made the session valid)
LifetimeSleepCoordinated(i) ==
    /\ devices[i].kind = "lifetime"
    /\ pc[i] = "sleep"
    /\ IF client.session = "valid"
       THEN /\ pc' = [pc EXCEPT ![i] = "fetch2"]
            /\ calls' = [calls EXCEPT ![i] =
                            Append(Completed(@, [out |-> "ok", val |-> None]),
                                   Call("get_lifetime_graph", LifetimeArgs(devices[i])))]
       ELSE /\ pc' = [pc EXCEPT ![i] = "refresh"]
            /\ calls' = [calls EXCEPT ![i] =
                            Append(Completed(@, [out |-> "ok", val |-> None]),
                                   Call("refresh_login", <<>>))]
    /\ UNCHANGED <<inverters, devices, state, now, clock, prev>>

\* lines 135-136: the sleep is over, refresh_login is called
LifetimeSleep(i) ==
    /\ devices[i].kind = "lifetime"
    /\ pc[i] = "sleep"
    /\ pc' = [pc EXCEPT ![i] = "refresh"]
    /\ calls' = [calls EXCEPT ![i] =
                    Append(Completed(@, [out |-> "ok", val |-> None]),
                           Call("refresh_login", <<>>))]
    /\ UNCHANGED <<inverters, devices, state, now, clock, prev>>

\* (variant of LifetimeRefresh for C1: the update returns after the refresh
\* without fetching again)
LifetimeRefreshNoRetry(i) ==
    /\ devices[i].kind = "lifetime"
    /\ pc[i] = "refresh"
    /\ \E out \in RefreshOutcomes :
        \/ /\ out = "ok"
           /\ pc' = [pc EXCEPT ![i] = "done"]
           /\ calls' = [calls EXCEPT ![i] = Completed(@, [out |-> out, val |-> None])]
        \/ /\ out # "ok"
           /\ pc' = [pc EXCEPT ![i] = "raised"]
           /\ calls' = [calls EXCEPT ![i] = Completed(@, [out |-> out, val |-> None])]
    /\ UNCHANGED <<inverters, devices, state, now, clock, prev>>

\* lines 136-137: refresh_login returns (then the fetch is made again) or raises
LifetimeRefresh(i) ==
    /\ devices[i].kind = "lifetime"
    /\ pc[i] = "refresh"
    /\ \E out \in RefreshOutcomes :
        \/ /\ out = "ok"
           /\ pc' = [pc EXCEPT ![i] = "fetch2"]
           /\ calls' = [calls EXCEPT ![i] =
                           Append(Completed(@, [out |-> out, val |-> None]),
                                  Call("get_lifetime_graph", LifetimeArgs(devices[i])))]
        \/ /\ out # "ok"
           /\ pc' = [pc EXCEPT ![i] = "raised"]
           /\ calls' = [calls EXCEPT ![i] = Completed(@, [out |-> out, val |-> None])]
    /\ UNCHANGED <<inverters, devices, state, now, clock, prev>>

\* (variant of LifetimeSecondFetch for C16: the answer of the second fetch
\* is not stored)
LifetimeSecondFetchDiscarded(i) ==
    /\ devices[i].kind = "lifetime"
    /\ pc[i] = "fetch2"
    /\ \E r \in FetchResults :
        \/ /\ r.out = "ok"
           /\ pc' = [pc EXCEPT ![i] = "done"]
           /\ calls' = [calls EXCEPT ![i] = Completed(@, r)]
        \/ /\ r.out # "ok"
           /\ pc' = [pc EXCEPT ![i] = "raised"]
           /\ calls' = [calls EXCEPT ![i] = Completed(@, r)]
    /\ UNCHANGED <<inverters, devices, state, now, clock, prev>>

\* lines 137-138: the second fetch returns or raises; nothing catches here
LifetimeSecondFetch(i) ==
    /\ devices[i].kind = "lifetime"
    /\ pc[i] = "fetch2"
    /\ \E r \in FetchResults :
        \/ /\ r.out = "ok"
           /\ state' = [state EXCEPT ![i] = TotalEnergy(r)]
           /\ pc' = [pc EXCEPT ![i] = "done"]
           /\ calls' = [calls EXCEPT ![i] = Completed(@, r)]
        \/ /\ r.out # "ok"
           /\ pc' = [pc EXCEPT ![i] = "raised"]
           /\ calls' = [calls EXCEPT ![i] = Completed(@, r)]
           /\ UNCHANGED state
    /\ UNCHANGED <<inverters, devices, now, clock, prev>>

----------------------------------------------------------------------------
(* ApsystemsSensorToday.async_update, lines 169-181 *)

\* line 171: datetime.now()
DatetimeNow == DateOf(clock)

\* (variant of TodaySecondArgs for C8: the date is read again for the second
\* get_graph)
TodaySecondArgsFresh(i) == GraphArgs(devices[i], DatetimeNow)

\* lines 179-180: the second get_graph takes its date from the local `now`
TodaySecondArgs(i) == GraphArgs(devices[i], now[i])

\* lines 171-174: the host calls async_update, which reads the date and
\* awaits the first fetch
TodayAsyncUpdate(i) ==
    /\ devices[i].kind = "today"
    /\ MayUpdate(i)
    /\ now' = [now EXCEPT ![i] = DatetimeNow]
    /\ pc' = [pc EXCEPT ![i] = "fetch1"]
    /\ prev' = [prev EXCEPT ![i] = state[i]]
    /\ calls' = [calls EXCEPT ![i] = <<Call("get_graph", GraphArgs(devices[i], now'[i]))>>]
    /\ UNCHANGED <<inverters, devices, state, clock>>

\* (variant of TodayFirstFetch for C15: the reading is cleared to 0 while the
\* fetch is made again)
TodayFirstFetchClears(i) ==
    /\ devices[i].kind = "today"
    /\ pc[i] = "fetch1"
    /\ \E r \in FetchResults :
        \/ /\ r.out = "ok"
           /\ state' = [state EXCEPT ![i] = 0]
           /\ pc' = [pc EXCEPT ![i] = "fetch2"]
           /\ calls' = [calls EXCEPT ![i] =
                           Append(Completed(@, r), Call("get_graph", TodaySecondArgs(i)))]
        \/ /\ r.out = TokenExpired
           /\ pc' = [pc EXCEPT ![i] = "sleep"]
           /\ calls' = [calls EXCEPT ![i] =
                           Append(Completed(@, r), Call("sleep", <<SleepSeconds>>))]
           /\ UNCHANGED state
        \/ /\ r.out \in {DeviceOffline, OtherError}
           /\ pc' = [pc EXCEPT ![i] = "raised"]
           /\ calls' = [calls EXCEPT ![i] = Completed(@, r)]
           /\ UNCHANGED state
    /\ UNCHANGED <<inverters, devices, now, clock, prev>>

\* lines 173-179: the first fetch returns (the reading is stored and the
\* statement after the try makes the fetch again) or raises
TodayFirstFetch(i) ==
    /\ devices[i].kind = "today"
    /\ pc[i] = "fetch1"
    /\ \E r \in FetchResults :
        \/ /\ r.out = "ok"
           /\ state' = [state EXCEPT ![i] = TotalEnergy(r)]
           /\ pc' = [pc EXCEPT ![i] = "fetch2"]
           /\ calls' = [calls EXCEPT ![i] =
                           Append(Completed(@, r), Call("get_graph", TodaySecondArgs(i)))]
        \/ /\ r.out = TokenExpired
           /\ pc' = [pc EXCEPT ![i] = "sleep"]
           /\ calls' = [calls EXCEPT ![i] =
                           Append(Completed(@, r), Call("sleep", <<SleepSeconds>>))]
           /\ UNCHANGED state
        \/ /\ r.out \in {DeviceOffline, OtherError}
           /\ pc' = [pc EXCEPT ![i] = "raised"]
           /\ calls' = [calls EXCEPT ![i] = Completed(@, r)]
           /\ UNCHANGED state
    /\ UNCHANGED <<inverters, devices, now, clock, prev>>

\* lines 177-178: the sleep is over, refresh_login is called
TodaySleep(i) ==
    /\ devices[i].kind = "today"
    /\ pc[i] = "sleep"
    /\ pc' = [pc EXCEPT ![i] = "refresh"]
    /\ calls' = [calls EXCEPT ![i] =
                    Append(Completed(@, [out |-> "ok", val |-> None]),
                           Call("refresh_login", <<>>))]
    /\ UNCHANGED <<inverters, devices, state, now, clock, prev>>

\* lines 178-180: refresh_login returns (then the fetch is made again) or raises
TodayRefresh(i) ==
    /\ devices[i].kind = "today"
    /\ pc[i] = "refresh"
    /\ \E out \in RefreshOutcomes :
        \/ /\ out = "ok"
           /\ pc' = [pc EXCEPT ![i] = "fetch2"]
           /\ calls' = [calls EXCEPT ![i] =
                           Append(Completed(@, [out |-> out, val |-> None]),
                                  Call("get_graph", TodaySecondArgs(i)))]
        \/ /\ out # "ok"
           /\ pc' = [pc EXCEPT ![i] = "raised"]
           /\ calls' = [calls EXCEPT ![i] = Completed(@, [out |-> out, val |-> None])]
    /\ UNCHANGED <<inverters, devices, state, now, clock, prev>>

\* (variant of TodaySecondFetch for C10: TokenExpired on the second fetch
\* starts the recovery again)
TodaySecondFetchLoop(i) ==
    /\ devices[i].kind = "today"
    /\ pc[i] = "fetch2"
    /\ \E r \in FetchResults :
        \/ /\ r.out = "ok"
           /\ state' = [state EXCEPT ![i] = r.val]
           /\ pc' = [pc EXCEPT ![i] = "done"]
           /\ calls' = [calls EXCEPT ![i] = Completed(@, r)]
        \/ /\ r.out = TokenExpired
           /\ pc' = [pc EXCEPT ![i] = "sleep"]
           /\ calls' = [calls EXCEPT ![i] =
                           Append(Completed(@, r), Call("sleep", <<SleepSeconds>>))]
           /\ UNCHANGED state
        \/ /\ r.out \in {DeviceOffline, OtherError}
           /\ pc' = [pc EXCEPT ![i] = "raised"]
           /\ calls' = [calls EXCEPT ![i] = Completed(@, r)]
           /\ UNCHANGED state
    /\ UNCHANGED <<inverters, devices, now, clock, prev>>

\* lines 179-181: the second fetch returns or raises; nothing catches here
TodaySecondFetch(i) ==
    /\ devices[i].kind = "today"
    /\ pc[i] = "fetch2"
    /\ \E r \in FetchResults :
        \/ /\ r.out = "ok"
           /\ state' = [state EXCEPT ![i] = TotalEnergy(r)]
           /\ pc' = [pc EXCEPT ![i] = "done"]
           /\ calls' = [calls EXCEPT ![i] = Completed(@, r)]
        \/ /\ r.out # "ok"
           /\ pc' = [pc EXCEPT ![i] = "raised"]
           /\ calls' = [calls EXCEPT ![i] = Completed(@, r)]
           /\ UNCHANGED state
    /\ UNCHANGED <<inverters, devices, now, clock, prev>>

----------------------------------------------------------------------------
(* The host *)

\* the host sees the update of entity i end (it returned or raised); the
\* coroutine's locals are gone and the entity can be updated again
UpdateEnds(i) ==
    /\ pc[i] \in Ended
    /\ pc' = [pc EXCEPT ![i] = "idle"]
    /\ now' = [now EXCEPT ![i] = NoDate]
    /\ prev' = [prev EXCEPT ![i] = None]
    /\ calls' = [calls EXCEPT ![i] = <<>>]
    /\ UNCHANGED <<inverters, devices, state, clock>>

----------------------------------------------------------------------------
(* Specifications *)

NowStep(i) ==
    \/ NowAsyncUpdate(i)
    \/ NowFirstFetch(i)
    \/ NowRefresh(i)
    \/ NowSleep(i)
    \/ NowSecondFetch(i)

LifetimeStep(i) ==
    \/ LifetimeAsyncUpdate(i)
    \/ LifetimeFirstFetch(i)
    \/ LifetimeSleep(i)
    \/ LifetimeRefresh(i)
    \/ LifetimeSecondFetch(i)

TodayStep(i) ==
    \/ TodayAsyncUpdate(i)
    \/ TodayFirstFetch(i)
    \/ TodaySleep(i)
    \/ TodayRefresh(i)
    \/ TodaySecondFetch(i)

\* the client is left unconstrained: its state is not tracked
Untracked == UNCHANGED env

Next ==
    \/ SetupPlatform /\ Untracked
    \/ Midnight /\ Untracked
    \/ \E i \in Entities :
        (NowStep(i) \/ LifetimeStep(i) \/ TodayStep(i) \/ UpdateEnds(i)) /\ Untracked

\* the platform of one inverter: setup, then updates of its three entities
\* interleaved at their awaits
Spec == Init /\ [][Next]_vars

\* discovery over every device listing
NextDiscovery == SetupPlatform /\ Untracked

SpecDiscovery == InitDiscovery /\ [][NextDiscovery]_vars

----------------------------------------------------------------------------
(* One update cycle against a client that holds a login session.  The      *)
(* entities are all built with the one ApApi object of line 38 (lines      *)
(* 44-46), so its session is shared: a fetch raises TokenExpired exactly   *)
(* while the session is expired, and a refresh_login that succeeds makes   *)
(* it valid again.                                                         *)

\* the session expires at the vendor's side
ExpireSession ==
    /\ client.session = "valid"
    /\ client.expiries < MaxExpiries
    /\ client' = [client EXCEPT !.session = "expired", !.expiries = @ + 1]
    /\ UNCHANGED <<inverters, devices, state, pc, now, clock, prev, calls, parallel, served>>

\* the awaits at which a call of the running update completes
Awaiting == {"fetch1", "sleep", "refresh", "fetch2"}

\* what the client does in a step of entity i: the fetch that completes in
\* the step raises TokenExpired iff the session is expired; a refresh_login
\* that completes with success makes the session valid; a refresh_login
\* invoked in the step is counted, apart if the session is valid by then
SessionClient(i) ==
    LET completes == pc[i] \in Awaiting
        c == calls'[i][Len(calls[i])]
        invokes == Len(calls'[i]) > Len(calls[i])
        n == calls'[i][Len(calls'[i])]
        refreshed == completes /\ c.op = "refresh_login" /\ c.out = "ok"
        asked == invokes /\ n.op = "refresh_login"
    IN  /\ (completes /\ c.op \in FetchOps) =>
                (c.out = TokenExpired <=> client.session = "expired")
        /\ client' = [client EXCEPT
                !.session = IF refreshed THEN "valid" ELSE @,
                !.refreshCalls = IF asked THEN @ + 1 ELSE @,
                !.stale = IF asked /\ client.session = "valid" THEN @ + 1 ELSE @]
        /\ UNCHANGED <<parallel, served>>

\* the host updates all entities at once, each one time
InitCycle == InitWith(<<Inverter("D1")>>) /\ parallel = Len(BuildDevices(inverters))

NextCycle ==
    \/ SetupPlatform /\ Untracked
    \/ ExpireSession
    \/ \E i \in Entities :
        (NowStep(i) \/ LifetimeStep(i) \/ TodayStep(i)) /\ SessionClient(i)

SpecCycle == InitCycle /\ [][NextCycle]_vars

----------------------------------------------------------------------------
(* Updates of the energy entities within one calendar day against a client *)
(* whose fetches never raise and whose energy values never decrease.       *)

\* the last value the client returned to entity i, None before the first
Served(i) == IF i \in DOMAIN served THEN served[i] ELSE None

\* what the client does in a step of entity i: the fetch that completes in
\* the step returns a value, not below the last it returned to that entity
MonotoneClient(i) ==
    LET completes == pc[i] \in {"fetch1", "fetch2"}
        c == calls'[i][Len(calls[i])]
    IN  /\ completes => c.out = "ok" /\ c.val >= Served(i)
        /\ served' = IF completes
                     THEN [j \in DOMAIN served \cup {i} |->
                              IF j = i THEN c.val ELSE served[j]]
                     ELSE served
        /\ UNCHANGED <<parallel, client>>

NextMonotone ==
    \/ SetupPlatform /\ Untracked
    \/ \E i \in Entities :
        (LifetimeStep(i) \/ TodayStep(i) \/ UpdateEnds(i)) /\ MonotoneClient(i)

SpecMonotone == InitCycle /\ [][NextMonotone]_vars

----------------------------------------------------------------------------
(* Reading the history of the running update *)

\* the positions in calls[i] of the fetches, and of the refresh calls
FetchAt(i) == {k \in DOMAIN calls[i] : calls[i][k].op \in FetchOps}

RefreshAt(i) == {k \in DOMAIN calls[i] : calls[i][k].op = "refresh_login"}

SleepAt(i) == {k \in DOMAIN calls[i] : calls[i][k].op = "sleep"}

\* the last call the update made
LastCall(i) == calls[i][Len(calls[i])]

\* the first fetch of the running update raised TokenExpired
FirstExpired(i) == calls[i] # <<>> /\ calls[i][1].out = TokenExpired

\* the refresh of the running update returned
RefreshSucceeded(i) == \E k \in RefreshAt(i) : calls[i][k].out = "ok"

\* the update has made its second fetch, which has raised
RetryFailed(i) ==
    /\ FirstExpired(i)
    /\ Cardinality(FetchAt(i)) >= 2
    /\ LastCall(i).op \in FetchOps
    /\ LastCall(i).out \in {TokenExpired, DeviceOffline, OtherError}

----------------------------------------------------------------------------
(* C1 *)

\* C1: in an update of any kind whose first fetch raised TokenExpired and
\* whose refresh returned, once the update has ended exactly one refresh and
\* exactly two fetches (the first and one retry) were made, the retry is the
\* last call, and if the retry returned a reading the update returned and the
\* entity holds that reading.
C1_RefreshAndRetryOnce ==
    \A i \in Entities :
        (pc[i] \in Ended /\ FirstExpired(i) /\ RefreshSucceeded(i)) =>
            /\ Cardinality(RefreshAt(i)) = 1
            /\ Cardinality(FetchAt(i)) = 2
            /\ LastCall(i).op = calls[i][1].op
            /\ LastCall(i).out = "ok" => (pc[i] = "done" /\ state[i] = LastCall(i).val)

\* a lifetime update whose first fetch raised TokenExpired has ended with the
\* retry's reading, which differs from the reading held before
C1_Witness ==
    \E i \in Entities :
        /\ devices[i].kind = "lifetime"
        /\ pc[i] = "done"
        /\ FirstExpired(i)
        /\ RefreshSucceeded(i)
        /\ LastCall(i).out = "ok"
        /\ state[i] = LastCall(i).val
        /\ state[i] # prev[i]

----------------------------------------------------------------------------
(* C2 *)

\* C2: whenever a fetch of a power update has returned a reading, that fetch
\* was made for the entity's own device, it is the update's last call, the
\* update has returned, and the entity holds the returned power.
C2_PowerReading ==
    \A i \in Entities :
        devices[i].kind = "now" =>
            \A k \in FetchAt(i) :
                calls[i][k].out = "ok" =>
                    /\ calls[i][k].args = <<devices[i].inverter.inverter_dev_id>>
                    /\ k = Len(calls[i])
                    /\ pc[i] = "done"
                    /\ state[i] = calls[i][k].val

\* a power update has returned with a fetched reading that is neither the
\* reading held before nor the offline reading
C2_Witness ==
    \E i \in Entities :
        /\ devices[i].kind = "now"
        /\ pc[i] = "done"
        /\ LastCall(i).out = "ok"
        /\ LastCall(i).val > 0
        /\ LastCall(i).val # prev[i]

----------------------------------------------------------------------------
(* C3 *)

\* C3: when the first fetch of a power update has raised DeviceOffline, the
\* update has returned with the reading exactly 0, and that fetch is the only
\* call it made: no second fetch, no refresh, no sleep.
C3_OfflineIsZero ==
    \A i \in Entities :
        (devices[i].kind = "now" /\ calls[i] # <<>> /\ calls[i][1].out = DeviceOffline) =>
            /\ pc[i] = "offline"
            /\ state[i] = 0
            /\ Len(calls[i]) = 1

\* a power entity that held a positive reading has gone offline
C3_Witness ==
    \E i \in Entities :
        /\ devices[i].kind = "now"
        /\ pc[i] = "offline"
        /\ calls[i][1].out = DeviceOffline
        /\ prev[i] > 0
        /\ state[i] = 0

----------------------------------------------------------------------------
(* C4 *)

\* C4: in an update of any kind whose first fetch raised TokenExpired and
\* whose second fetch raised (TokenExpired, DeviceOffline or anything else),
\* the update has raised, the failed fetch is its last call, it made exactly
\* two fetches and one refresh, and the entity holds the reading it held when
\* the update was called (no fallback value is stored).
C4_RetryFailurePropagates ==
    \A i \in Entities :
        RetryFailed(i) =>
            /\ pc[i] = "raised"
            /\ Cardinality(FetchAt(i)) = 2
            /\ Cardinality(RefreshAt(i)) = 1
            /\ state[i] = prev[i]

\* the second fetch of a power update raised DeviceOffline while the entity
\* held a positive reading
C4_Witness ==
    \E i \in Entities :
        /\ devices[i].kind = "now"
        /\ RetryFailed(i)
        /\ LastCall(i).out = DeviceOffline
        /\ pc[i] = "raised"
        /\ prev[i] > 0
        /\ state[i] = prev[i]

----------------------------------------------------------------------------
(* C5 *)

\* C5: an update that has ended by raising leaves the entity with the reading
\* it held when the update was called, for all three kinds.
C5_RaisedKeepsReading ==
    \A i \in Entities : pc[i] = "raised" => state[i] = prev[i]

----------------------------------------------------------------------------
(* C6 *)

\* C6: an update of any kind whose first fetch returned a reading makes no
\* other fetch: a second fetch is made only after the first raised
\* TokenExpired.
C6_SecondFetchOnlyAfterExpiry ==
    \A i \in Entities :
        Cardinality(FetchAt(i)) >= 2 => calls[i][1].out = TokenExpired

----------------------------------------------------------------------------
(* C7 *)

\* C7: in every step in which a fetch of a lifetime or today update raises
\* DeviceOffline, the update raises (nothing catches the exception), no
\* further call is made, and the reading is left as it was: it is not set
\* to 0.
C7_OfflineNotCaughtForEnergy ==
    [][\A i \in Entities :
          (/\ devices[i].kind \in {"lifetime", "today"}
           /\ pc[i] \in {"fetch1", "fetch2"}
           /\ calls'[i][Len(calls[i])].out = DeviceOffline) =>
              /\ pc'[i] = "raised"
              /\ Len(calls'[i]) = Len(calls[i])
              /\ state'[i] = state[i]]_vars

\* a lifetime entity holding a positive reading has raised DeviceOffline out
\* of its update and still holds that reading
C7_Witness ==
    \E i \in Entities :
        /\ devices[i].kind = "lifetime"
        /\ pc[i] = "raised"
        /\ LastCall(i).out = DeviceOffline
        /\ state[i] > 0
        /\ state[i] = prev[i]

----------------------------------------------------------------------------
(* C8 *)

\* a number below 100 as two decimal digits
C8_TwoDigit(n) ==
    IF n < 10 THEN "0" \o Digit[n + 1]
    ELSE Digit[(n \div 10) + 1] \o Digit[(n % 10) + 1]

\* the arguments get_graph is passed for the date of day d
C8_ArgsForDay(i, d) ==
    <<devices[i].inverter.inverter_dev_id, DateOf(d).year,
      C8_TwoDigit(DateOf(d).month), C8_TwoDigit(DateOf(d).day)>>

\* C8 as claimed: every fetch of a today update is passed the year, 2-digit
\* month and 2-digit day of the day on which that fetch is made.
C8_FetchPassesCurrentDate ==
    \A i \in Entities :
        devices[i].kind = "today" =>
            \A k \in FetchAt(i) : calls[i][k].args = C8_ArgsForDay(i, calls[i][k].at)

\* C8 as amended: every fetch of a today update is passed the year, 2-digit
\* month and 2-digit day of the day on which the update was called (when its
\* first fetch was made), also when a later fetch of the update is made on
\* another day.
C8_FetchPassesStartDate ==
    \A i \in Entities :
        devices[i].kind = "today" =>
            \A k \in FetchAt(i) : calls[i][k].args = C8_ArgsForDay(i, calls[i][1].at)

\* a today update made its fetch after the sleep and the refresh on another
\* day than its first fetch
C8_Witness ==
    \E i \in Entities :
        /\ devices[i].kind = "today"
        /\ FirstExpired(i)
        /\ RefreshSucceeded(i)
        /\ Cardinality(FetchAt(i)) = 2
        /\ LastCall(i).at # calls[i][1].at

----------------------------------------------------------------------------
(* C9 *)

\* the listed inverters have pairwise distinct identifiers
C9_DistinctIdentifiers ==
    \A a, b \in DOMAIN inverters :
        a # b => inverters[a].inverter_dev_id # inverters[b].inverter_dev_id

\* C9: once async_setup_platform has run, the entities are exactly a power, a
\* lifetime and a today entity per listed inverter, in that order and in the
\* order of the listing, with the unique ids apsystemsapi_<id>_now,
\* apsystemsapi_<id>_lifetime and apsystemsapi_<id>_today; when the listed
\* identifiers are pairwise distinct, so are the unique ids of all entities.
C9_ThreeEntitiesPerDevice ==
    devices # <<>> =>
        /\ Len(devices) = 3 * Len(inverters)
        /\ \A k \in DOMAIN inverters :
            LET id == inverters[k].inverter_dev_id
            IN  /\ devices[3 * k - 2].kind = "now"
                /\ devices[3 * k - 1].kind = "lifetime"
                /\ devices[3 * k].kind = "today"
                /\ \A j \in {3 * k - 2, 3 * k - 1, 3 * k} : devices[j].inverter = inverters[k]
                /\ UniqueId(devices[3 * k - 2]) = "apsystemsapi_" \o id \o "_now"
                /\ UniqueId(devices[3 * k - 1]) = "apsystemsapi_" \o id \o "_lifetime"
                /\ UniqueId(devices[3 * k]) = "apsystemsapi_" \o id \o "_today"
        /\ C9_DistinctIdentifiers =>
            \A x, y \in DOMAIN devices :
                x # y => UniqueId(devices[x]) # UniqueId(devices[y])

\* discovery has run on a listing of two inverters with distinct identifiers,
\* one of which ends like a unique-id suffix
C9_Witness ==
    /\ Len(inverters) = 2
    /\ Len(devices) = 6
    /\ inverters[1].inverter_dev_id = "D1"
    /\ inverters[2].inverter_dev_id = "D1_now"

----------------------------------------------------------------------------
(* C10 *)

\* C10: at every point of every update, of any kind and whatever the client
\* calls returned or raised, the update has made at most two fetches, at most
\* one refresh and at most one sleep.
C10_AtMostTwoFetchesOneRefresh ==
    \A i \in Entities :
        /\ Cardinality(FetchAt(i)) <= 2
        /\ Cardinality(RefreshAt(i)) <= 1
        /\ Cardinality(SleepAt(i)) <= 1

\* a today update whose two fetches both raised TokenExpired has ended after
\* one refresh
C10_Witness ==
    \E i \in Entities :
        /\ devices[i].kind = "today"
        /\ pc[i] = "raised"
        /\ RetryFailed(i)
        /\ LastCall(i).out = TokenExpired
        /\ Cardinality(FetchAt(i)) = 2
        /\ Cardinality(RefreshAt(i)) = 1

----------------------------------------------------------------------------
(* C11: refreshes are not coordinated across the entities that share the   *)
(* client.  Every entity whose first fetch raised TokenExpired invokes     *)
(* refresh_login itself (the energy entities once their pause is over),    *)
(* whatever the session's state by then, so the client is asked to refresh *)
(* once per entity that saw the expiry and not once per expiry.            *)

\* the entities whose running update has invoked refresh_login
C11_Refreshers == {i \in Entities : RefreshAt(i) # {}}

C11_OneRefreshPerObserver ==
    /\ \A i \in Entities :
        FirstExpired(i) =>
            \/ RefreshAt(i) # {}
            \/ devices[i].kind # "now" /\ pc[i] = "sleep"
    /\ client.refreshCalls = Cardinality(C11_Refreshers)

\* the session has expired once, two entities have seen that expiry, and
\* refresh_login has been invoked twice, once on a session that the other
\* entity's refresh had already made valid
C11_Witness ==
    /\ client.expiries = 1
    /\ client.refreshCalls = 2
    /\ client.stale = 1
    /\ \E i, j \in Entities :
        /\ i # j
        /\ FirstExpired(i) /\ RefreshSucceeded(i)
        /\ FirstExpired(j) /\ RefreshAt(j) # {}

----------------------------------------------------------------------------
(* C12: updates of different entities are independent.  In every step of   *)
(* every interleaving, an entity whose own update took no step keeps its   *)
(* reading and its place in its update, the entities keep their device and *)
(* name, and a reading that changes becomes the value the client returned  *)
(* to that entity's own fetch completing in the step, or 0 when that fetch *)
(* of the power entity raised DeviceOffline.                               *)

C12_PollsAreIndependent ==
    [][ /\ devices # <<>> => devices' = devices
        /\ \A j \in Entities :
            /\ calls'[j] = calls[j] => state'[j] = state[j] /\ pc'[j] = pc[j]
            /\ state'[j] # state[j] =>
                /\ pc[j] \in {"fetch1", "fetch2"}
                /\ LET c == calls'[j][Len(calls[j])]
                   IN  /\ c.op \in FetchOps
                       /\ c.args[1] = devices[j].inverter.inverter_dev_id
                       /\ \/ c.out = "ok" /\ state'[j] = c.val
                          \/ /\ devices[j].kind = "now"
                             /\ c.out = DeviceOffline
                             /\ state'[j] = 0
      ]_vars

\* two updates are in flight at once; one entity has stored a reading of its
\* own while the other, which has made its call, still holds none
C12_Witness ==
    \E i, j \in Entities :
        /\ i # j
        /\ pc[i] \in Awaiting /\ pc[j] \in Awaiting
        /\ state[i] \in Values
        /\ state[j] = None /\ calls[j] # <<>>

----------------------------------------------------------------------------
(* C13: for every kind of entity the recovery from TokenExpired runs in    *)
(* the order pause of 3 seconds, refresh_login, second fetch: every        *)
(* refresh_login of an update is invoked after a sleep(3) of that update   *)
(* has returned, and the second fetch after the refresh_login.             *)

C13_PauseThenRefreshThenRetry ==
    \A i \in Entities :
        /\ \A k \in RefreshAt(i) :
            \E p \in SleepAt(i) :
                /\ p < k
                /\ calls[i][p].args = <<SleepSeconds>>
                /\ calls[i][p].out = "ok"
        /\ FirstExpired(i) =>
            \A f \in FetchAt(i) \ {1} : \E k \in RefreshAt(i) : k < f

----------------------------------------------------------------------------
(* C14: an update called on an idle entity ends, given that every awaited  *)
(* call returns or raises; it ends as done (a fetched value stored), as    *)
(* offline (the power entity only) or by raising; and it moves only along  *)
(* Idle -> Fetching -> {Done | OfflineFallback | ExpiredRetryWait ->       *)
(* Fetching(retry) -> Done-or-Propagate}, where Fetching is the await of   *)
(* the first fetch, ExpiredRetryWait the awaits of the pause and of the    *)
(* refresh, Fetching(retry) the await of the second fetch, and a raise is  *)
(* possible at every await.                                                *)

\* the awaits of the recovery from TokenExpired
C14_ExpiredRetryWait == {"sleep", "refresh"}

\* entity i moves from a to b along the state machine
C14_Transition(i, a, b) ==
    \/ a = "idle" /\ b = "fetch1"
    \/ a = "fetch1" /\ b \in {"done", "raised"}
    \/ a = "fetch1" /\ b = "offline" /\ devices[i].kind = "now"
    \/ a = "fetch1" /\ b \in C14_ExpiredRetryWait
    \/ a \in C14_ExpiredRetryWait /\ b \in C14_ExpiredRetryWait \cup {"fetch2", "raised"}
    \/ a = "fetch2" /\ b \in {"done", "raised"}
    \/ a \in Ended /\ b = "idle"

C14_OnlyMachineTransitions ==
    [][ \A i \in Entities :
            pc'[i] # pc[i] => C14_Transition(i, pc[i], pc'[i]) ]_vars

\* the awaited calls of the updates in flight return or raise
Fairness ==
    \A i \in 1..3 :
        WF_vars(/\ i \in Entities
                /\ pc[i] \in Awaiting
                /\ (NowStep(i) \/ LifetimeStep(i) \/ TodayStep(i))
                /\ Untracked)

SpecFair == Spec /\ Fairness

\* the part of C14 about termination: an update in flight ends
C14_UpdateEnds ==
    \A i \in 1..3 :
        (i \in Entities /\ pc[i] \in Awaiting) ~> (i \in Entities /\ pc[i] \in Ended)

----------------------------------------------------------------------------
(* C15: when the client's energy values for an entity never decrease and   *)
(* no fetch raises, within one calendar day, the reading of a lifetime or  *)
(* today entity never decreases from one store to the next, over any       *)
(* sequence of updates and at the store between the two fetches of an      *)
(* update.                                                                 *)

C15_EnergyNeverDecreases ==
    [][ \A i \in Entities :
            (devices[i].kind \in {"lifetime", "today"} /\ state[i] # None)
                => state'[i] >= state[i] ]_vars

\* a later update has stored, between its two fetches, a reading above the
\* one an earlier update left
C15_Witness ==
    \E i \in Entities :
        /\ devices[i].kind \in {"lifetime", "today"}
        /\ pc[i] = "fetch2"
        /\ prev[i] \in Values
        /\ state[i] > prev[i]

----------------------------------------------------------------------------
(* C16: when an update of a lifetime or today entity returns, it has made  *)
(* two fetches and the reading is the value the second one returned, also  *)
(* when the first one returned a different value.                          *)

C16_ReadingIsSecondFetch ==
    \A i \in Entities :
        (devices[i].kind \in {"lifetime", "today"} /\ pc[i] = "done") =>
            /\ Cardinality(FetchAt(i)) = 2
            /\ LastCall(i).op \in FetchOps
            /\ LastCall(i).out = "ok"
            /\ state[i] = TotalEnergy(LastCall(i))

\* an update has returned whose two fetches returned different values
C16_Witness ==
    \E i \in Entities :
        /\ devices[i].kind \in {"lifetime", "today"}
        /\ pc[i] = "done"
        /\ calls[i][1].out = "ok"
        /\ calls[i][1].val # LastCall(i).val
        /\ state[i] = LastCall(i).val

====
